---- MODULE Spec2Model ----
(***************************************************************************)
(* HttpClient of src/src/client.ts: the facade (init, listen, request and  *)
(* the verb shortcuts), the request executor (_request), the response      *)
(* interpreter (_handleJsonResponse) and the error classifier              *)
(* (_handleResponseError), with the rxjs pipe filter -> map -> catchError  *)
(* and the Axios promise of every subscription.                            *)
(*                                                                         *)
(* ./pubsub, ./response, ./enum and ./const are imported by client.ts but  *)
(* are not part of src/: PubSub, HttpResponseError, the error topics and   *)
(* the built-in defaults are modelled from spec.md.                        *)
(***************************************************************************)
EXTENDS Integers, Sequences, FiniteSets, TLC

VARIABLES
    commonHeader, \* HttpClient._commonHeader
    inited,      \* HttpClient._inited
    config,      \* HttpClient._config
    listeners,   \* HttpClient._pubsub: topic -> sequence of registered handlers
    returned,    \* whether a listen() call has handed its caller the clear function
    streams,     \* the Observables returned by request(), in creation order,
                 \* each with the method, url and options its closure holds
                 \* and the options the caller gave
    subs,        \* the subscriptions made to those Observables, in order
    axiosCalls,  \* number of Axios.request calls issued so far
    lastCall     \* the latest call of init or request: its name, the config
                 \* handed to init, and whether the call threw

vars == <<commonHeader, inited, config, listeners, returned, streams, subs, axiosCalls, lastCall>>

(* ------------------------------ bounds --------------------------------- *)
MaxStreams == 1
MaxSubs == 2
MaxProgress == 2
MaxListeners == 2

(* ------------------------------ values --------------------------------- *)
Undef == "undefined"

\* Response bodies the transport may hand back (response.data).
\* JavaScript values: t is what typeof says, except that null is told apart.
JsNull == [t |-> "null"]
JsUndefined == [t |-> "undefined"]
JsString(x) == [t |-> "string", v |-> x]
JsObject(fields) == [t |-> "object", v |-> fields]
TypeofObject(x) == x.t \in {"object", "null"}
Truthy(x) == x.t \notin {"null", "undefined"}
Payload == JsString("payload")
Bodies ==
    { JsString("plain"), JsNull,
      JsObject([data |-> Payload]),
      JsObject([code |-> 0, data |-> Payload]),
      JsObject([code |-> 1, data |-> Payload]) }

\* HTTP statuses the server may answer with.
HttpStatuses == {200, 401, 404, 418, 500}

Urls == {"", "/a"}
MethodInputs == {"head", "HEAD"}
Handlers == {"h1", "hThrows"}
\* What a listener does when invoked: hThrows raises an exception.
HandlerThrows(h) == h = "hThrows"

(* ------------------------- objects and options ------------------------- *)
\* A JavaScript object: a function from its own keys to their values.
EmptyObject == [k \in {} |-> Undef]

\* { ...base, ...over }: the keys of both, over's value on a collision.
Spread(base, over) ==
    [k \in (DOMAIN base) \cup (DOMAIN over) |->
        IF k \in DOMAIN over THEN over[k] ELSE base[k]]

\* Built-in defaults of ./const.
HTTP_DEFAULT_CONFIG == [validateStatus |-> "is2xx"]
HTTP_DEFAULT_REQUEST_OPTION ==
    [observe |-> "body",
     responseType |-> "json",
     responseResultKey |-> [code |-> "code", data |-> "data"],
     successCode |-> [array |-> FALSE, value |-> 0]]

\* HttpObserveType of ./enum.
HttpObserveType == [Body |-> "body", Event |-> "event"]

\* HttpErrorCodeType of ./enum: the topics of the bus.
HttpErrorCodeType ==
    [Server |-> "Server", Offline |-> "Offline",
     UnAuth |-> "UnAuth", NotFound |-> "NotFound"]
Topics == {HttpErrorCodeType[k] : k \in DOMAIN HttpErrorCodeType}

\* Arguments callers pass to init() and to request(); the verb shortcuts
\* are called without options.
ConfigInputs == {EmptyObject, [validateStatus |-> "notFunction"]}
OptionInputs == {[observe |-> "event"]}

\* Status predicates a configuration may carry; typeof v === 'function'.
IsFunction(v) == v \in {"is2xx", "any"}
Apply(v, status) ==
    IF v = "is2xx" THEN status >= 200 /\ status < 300 ELSE TRUE

(* --------------------------- ./response -------------------------------- *)
\* What Axios rejects with: an HTTP failure carries the response status.
AxiosError(kind, status) == [type |-> "AxiosError", kind |-> kind, status |-> status]
\* What Axios resolves with.
AxiosResponse(status, body) == [type |-> "response", status |-> status, data |-> body]

\* new HttpResponseError(original, options); status is the original's HTTP
\* status, 0 when the failure carries no response.
HttpResponseError(original, options) ==
    [type |-> "HttpResponseError", status |-> original.status,
     original |-> original, options |-> options]

HttpUploadProgressEvent(n) == [type |-> "upload", n |-> n]
HttpDownloadProgressEvent(n) == [type |-> "download", n |-> n]
IsProgress(v) == v.type \in {"upload", "download"}

\* The exceptions of _request's argument checks and of a throwing listener.
JsError(message) == [type |-> "Error", message |-> message]

(* ----------------------------- ./pubsub -------------------------------- *)
NoListeners == [t \in Topics |-> <<>>]

\* PubSub.on(topic, handler)
PubSubOn(reg, topic, h) == [reg EXCEPT ![topic] = Append(@, h)]

\* PubSub.clear()
PubSubClear(reg) == [t \in DOMAIN reg |-> <<>>]

\* The handlers emit(topic, ...) runs: those of the topic in registration
\* order, up to and including the first one that throws.
RECURSIVE RunHandlers(_)
RunHandlers(hs) ==
    IF hs = <<>> THEN <<>>
    ELSE IF HandlerThrows(Head(hs)) THEN <<Head(hs)>>
    ELSE <<Head(hs)>> \o RunHandlers(Tail(hs))

\* PubSub.emit(topic, err, options): the invocations made, each with the
\* arguments the handler of listen() receives, and whether one threw.
PubSubEmit(reg, topic, err, options) ==
    LET hs == IF topic \in DOMAIN reg THEN reg[topic] ELSE <<>>
        run == RunHandlers(hs)
    IN  [calls |-> [i \in 1..Len(run) |->
                       [handler |-> run[i], topic |-> topic,
                        err |-> err, options |-> options]],
         threw |-> run # <<>> /\ HandlerThrows(run[Len(run)])]

(* ------------------------- pure parts of client.ts --------------------- *)
\* Mutant: the allow-list compared without regard to case.
_isValidMethodAnyCase(method) ==
    method \in {"delete", "get", "head", "options", "patch", "post", "put", "jsonp",
                "DELETE", "GET", "HEAD", "OPTIONS", "PATCH", "POST", "PUT", "JSONP"}

_isValidMethod(method) ==
    method \in {"delete", "get", "head", "options", "patch", "post", "put", "jsonp"}

\* encodeURIComponent on the strings requests are made with.
encodeURIComponent(x) ==
    CASE x = "a b" -> "a%20b"
      [] x = "k&" -> "k%26"
      [] OTHER -> x

\* array.join(sep)
RECURSIVE Join(_, _)
Join(array, sep) ==
    IF array = <<>> THEN ""
    ELSE IF Len(array) = 1 THEN array[1]
    ELSE array[1] \o sep \o Join(Tail(array), sep)

\* _convertParam(params): params is the object's own <<key, value>> pairs in
\* Object.keys order; a key whose value is undefined is skipped.
_convertParam(params) ==
    LET defined == SelectSeq(params, LAMBDA kv : kv[2] # Undef)
        array == [n \in 1..Len(defined) |->
                     encodeURIComponent(defined[n][1]) \o "=" \o
                     encodeURIComponent(defined[n][2])]
    IN  Join(array, "&")

\* /\?$/.test(url) on the urls requests are made with.
EndsWithQuestionMark(url) == url \in {"/a?"}

\* _getUrl(url, params)
_getUrl(url, params) ==
    IF params # ""
    THEN IF EndsWithQuestionMark(url) THEN url \o params ELSE url \o "?" \o params
    ELSE url

\* Mutant: the common headers spread over the call's own.
_getHeaderCommonWins(common, header) == Spread(header, common)

\* _getHeader(header): { ...this._commonHeader, ...header }
_getHeader(common, header) == Spread(common, header)

\* options.successCode as the list indexOf searches.
SuccessCodes(successCode) ==
    IF successCode.array
    THEN {successCode.values[i] : i \in 1..Len(successCode.values)}
    ELSE {successCode.value}

\* json[key] of a body that passed the truthiness test.
Field(json, key) ==
    IF json.t = "object" /\ key \in DOMAIN json.v THEN json.v[key] ELSE JsUndefined

\* Mutant: an interpreter that accepts every defined code.
_handleJsonResponseAnyCode(json, response, options) ==
    LET responseKey == options.responseResultKey
        keyCode == responseKey.code
    IN  IF /\ Truthy(json)
           /\ json.t = "object" /\ keyCode \in DOMAIN json.v
        THEN Field(json, responseKey.data)
        ELSE HttpResponseError(response, options)

\* _handleJsonResponse: the payload, or an HttpResponseError (returned).
_handleJsonResponse(json, response, options) ==
    LET responseKey == options.responseResultKey
        keyCode == responseKey.code
    IN  IF /\ Truthy(json)
           /\ json.t = "object" /\ keyCode \in DOMAIN json.v
           /\ json.v[keyCode] \in SuccessCodes(options.successCode)
        THEN Field(json, responseKey.data)
        ELSE HttpResponseError(response, options)

\* Mutant: the server class starting above 500.
ErrorTypeAbove500(status) ==
    LET t1 == IF status > 500 THEN HttpErrorCodeType.Server ELSE Undef
        t2 == IF status = 0 THEN HttpErrorCodeType.Offline ELSE t1
        t3 == IF status = 401 THEN HttpErrorCodeType.UnAuth ELSE t2
    IN  IF status = 404 THEN HttpErrorCodeType.NotFound ELSE t3

\* The errorType _handleResponseError computes from err.status.
ErrorType(status) ==
    LET t1 == IF status >= 500 THEN HttpErrorCodeType.Server ELSE Undef
        t2 == IF status = 0 THEN HttpErrorCodeType.Offline ELSE t1
        t3 == IF status = 401 THEN HttpErrorCodeType.UnAuth ELSE t2
    IN  IF status = 404 THEN HttpErrorCodeType.NotFound ELSE t3

\* _handleResponseError(err, options): what this._pubsub.emit does.
_handleResponseError(reg, err, options) ==
    PubSubEmit(reg, ErrorType(err.status), err, options)

\* Mutant: a callback that accepts every status when the configuration has
\* no predicate.
validateStatusFailOpen(cfg, status) ==
    IF "validateStatus" \in DOMAIN cfg /\ IsFunction(cfg.validateStatus)
    THEN Apply(cfg.validateStatus, status)
    ELSE TRUE

\* The validateStatus callback Axios is given.
validateStatus(cfg, status) ==
    IF "validateStatus" \in DOMAIN cfg /\ IsFunction(cfg.validateStatus)
    THEN Apply(cfg.validateStatus, status)
    ELSE FALSE

\* Mutant: a filter that lets every event through.
filterNothing(options, response) == TRUE

\* request(): the filter of the pipe.
filter(options, response) ==
    IF options.observe # HttpObserveType.Event
    THEN ~IsProgress(response)
    ELSE TRUE

SuccessResult(result, response) ==
    [type |-> "result", result |-> result, response |-> response, isSuccess |-> TRUE]
FailureResult(error) ==
    [type |-> "result", result |-> JsNull, response |-> error, isSuccess |-> FALSE]

\* Mutant: a map that interprets the body whatever the observation mode.
mapAlwaysInterprets(options, response) ==
    LET data == IF "data" \in DOMAIN response THEN response.data ELSE JsUndefined IN
    IF options.responseType = "json" /\ TypeofObject(data)
    THEN LET result == _handleJsonResponse(data, response, options) IN
         IF "type" \in DOMAIN result /\ result.type = "HttpResponseError"
         THEN [threw |-> TRUE, value |-> result]
         ELSE [threw |-> FALSE, value |-> SuccessResult(result, response)]
    ELSE [threw |-> FALSE, value |-> SuccessResult(data, response)]

\* request(): the map of the pipe; threw when it throws the interpreter's
\* HttpResponseError.
map(options, response) ==
    IF options.observe = HttpObserveType.Body
    THEN LET data == IF "data" \in DOMAIN response THEN response.data ELSE JsUndefined IN
         IF options.responseType = "json" /\ TypeofObject(data)
         THEN LET result == _handleJsonResponse(data, response, options) IN
              IF "type" \in DOMAIN result /\ result.type = "HttpResponseError"
              THEN [threw |-> TRUE, value |-> result]
              ELSE [threw |-> FALSE, value |-> SuccessResult(result, response)]
         ELSE [threw |-> FALSE, value |-> SuccessResult(data, response)]
    ELSE [threw |-> FALSE, value |-> response]

\* Mutant: the selector rethrows the error after classifying it.
catchErrorRethrows(reg, error, options) ==
    LET emit == IF error.type = "HttpResponseError"
                THEN _handleResponseError(reg, error, options)
                ELSE [calls |-> <<>>, threw |-> FALSE]
    IN  [calls |-> emit.calls, threw |-> TRUE, value |-> FailureResult(error)]

\* request(): the selector of catchError; threw when a listener's exception
\* leaves _handleResponseError, value the result it returns otherwise.
catchError(reg, error, options) ==
    LET emit == IF error.type = "HttpResponseError"
                THEN _handleResponseError(reg, error, options)
                ELSE [calls |-> <<>>, threw |-> FALSE]
    IN  [calls |-> emit.calls, threw |-> emit.threw, value |-> FailureResult(error)]

(* ------------------- one subscription to request()'s stream ------------ *)
\* state:    open | completed | errored | unsubscribed (the subscriber's side)
\* promise:  none (Axios.request never called) | pending | aborted (cancelled
\*           through the token, its rejection not yet handled) | settled
\* token:    none | live | cancelled (cancelSource of this subscription)
\* ticks:    how many progress ticks Axios has reported for the call
\* log:      the values handed to the subscriber's next, in order
\* thrown:   the error notification handed to the subscriber, if any
\* calls:    the listener invocations made for this subscription's failure
\* sent:     the request config handed to Axios.request, empty before the call
NewSub(i) ==
    [stream |-> i, state |-> "open", promise |-> "none", token |-> "none",
     ticks |-> 0, log |-> <<>>, thrown |-> <<>>, calls |-> <<>>,
     sent |-> EmptyObject]

\* Mutant: a teardown that forgets to cancel.
TeardownNoCancel(s) == s

\* The teardown _request returns: cancelSource.cancel().
Teardown(s) ==
    [s EXCEPT !.token = IF @ = "live" THEN "cancelled" ELSE @]

\* Mutant: the failure result is handed to the subscriber before the
\* listeners run.
CaughtDeliversFirst(s, reg, options, error) ==
    LET c == catchError(reg, error, options) IN
    IF c.threw
    THEN [Teardown(s) EXCEPT !.state = "errored", !.calls = c.calls,
                             !.log = Append(@, c.value),
                             !.thrown = <<JsError("listener failed")>>]
    ELSE [Teardown(s) EXCEPT !.state = "completed", !.calls = c.calls,
                             !.log = Append(@, c.value)]

\* An error reaching catchError: the selector runs, its result is delivered
\* and the stream completes; an exception of the selector is the stream's
\* error notification.  The source is unsubscribed either way.
Caught(s, reg, options, error) ==
    LET c == catchError(reg, error, options) IN
    IF c.threw
    THEN [Teardown(s) EXCEPT !.state = "errored", !.calls = c.calls,
                             !.thrown = <<JsError("listener failed")>>]
    ELSE [Teardown(s) EXCEPT !.state = "completed", !.calls = c.calls,
                             !.log = Append(@, c.value)]

\* observer.next(v) of _request, through filter and map to the subscriber.
ObserverNext(s, reg, options, v) ==
    IF s.state # "open" THEN s
    ELSE IF ~filter(options, v) THEN s
    ELSE LET m == map(options, v) IN
         IF m.threw THEN Caught(s, reg, options, m.value)
         ELSE [s EXCEPT !.log = Append(@, m.value)]

\* observer.complete() of _request.
ObserverComplete(s) ==
    IF s.state # "open" THEN s
    ELSE [Teardown(s) EXCEPT !.state = "completed"]

\* Mutant: an error that reaches the pipe although the subscriber is closed.
ObserverErrorWhenClosed(s, reg, options, e) == Caught(s, reg, options, e)

\* observer.error(e) of _request.
ObserverError(s, reg, options, e) ==
    IF s.state # "open" THEN s
    ELSE Caught(s, reg, options, e)

\* Mutant: a .then callback that forgets observer.complete().
OnResolvedNoComplete(s, reg, options, response) ==
    ObserverNext(s, reg, options, response)

\* The .then callback of _request.
OnResolved(s, reg, options, response) ==
    ObserverComplete(ObserverNext(s, reg, options, response))

\* The .catch callback of _request.
OnRejected(s, reg, options, error) ==
    ObserverError(s, reg, options, HttpResponseError(error, options))

\* options[key], undefined for a key the object does not have.
Get(options, key) == IF key \in DOMAIN options THEN options[key] ELSE Undef

\* The url _request's subscribe function assigns to its url variable.
BuiltUrl(st) ==
    IF "params" \in DOMAIN st.options
    THEN _getUrl(st.url, _convertParam(st.options.params))
    ELSE st.url

\* The request config handed to Axios.request (the callbacks and the token
\* are the subscription's promise, ticks and token).
AxiosRequestConfig(st, common) ==
    [method |-> st.method,
     url |-> BuiltUrl(st),
     baseURL |-> Get(st.options, "baseUrl"),
     data |-> Get(st.options, "body"),
     headers |-> _getHeader(common, IF "header" \in DOMAIN st.options
                                   THEN st.options.header ELSE EmptyObject),
     withCredentials |-> IF "withCredentials" \in DOMAIN st.options
                         THEN st.options.withCredentials ELSE FALSE,
     responseType |-> IF Get(st.options, "responseType") \in {Undef, ""}
                      THEN "json" ELSE st.options.responseType,
     timeout |-> IF "timeout" \in DOMAIN st.options THEN st.options.timeout ELSE 0]

\* Mutant: argument checks that throw out of subscribe() instead of
\* reaching the observer.
SubscribeBodyThrows(i, st, reg) ==
    IF st.url = "" \/ ~_isValidMethod(st.method)
    THEN [NewSub(i) EXCEPT !.state = "errored", !.thrown = <<JsError("invalid argument")>>]
    ELSE [NewSub(i) EXCEPT !.promise = "pending", !.token = "live",
                           !.sent = AxiosRequestConfig(st, commonHeader)]

\* The subscribe function of _request's Observable: the argument checks,
\* whose exception rxjs hands to the observer as an error, then the call.
SubscribeBody(i, st, reg) ==
    IF st.url = ""
    THEN ObserverError(NewSub(i), reg, st.options, JsError("the url is required!"))
    ELSE IF ~_isValidMethod(st.method)
    THEN ObserverError(NewSub(i), reg, st.options, JsError("method is not valid!"))
    ELSE [NewSub(i) EXCEPT !.promise = "pending", !.token = "live",
                           !.sent = AxiosRequestConfig(st, commonHeader)]

ProgressTotal == 
    LET RECURSIVE Sum(_)
        Sum(k) == IF k = 0 THEN 0 ELSE subs[k].ticks + Sum(k - 1)
    IN  Sum(Len(subs))

(* ------------------------------ actions -------------------------------- *)
Call(op, arg, threw) == [op |-> op, arg |-> arg, threw |-> threw]

Init ==
    /\ commonHeader = EmptyObject
    /\ inited = FALSE
    /\ config = EmptyObject
    /\ listeners = NoListeners
    /\ returned = FALSE
    /\ streams = <<>>
    /\ subs = <<>>
    /\ axiosCalls = 0
    /\ lastCall = Call("none", EmptyObject, FALSE)

\* Mutant: init without the _inited guard, so a later call reconfigures.
initAgain(cfg) ==
    /\ config' = Spread(HTTP_DEFAULT_CONFIG, cfg)
    /\ inited' = TRUE
    /\ lastCall' = Call("init", cfg, FALSE)
    /\ UNCHANGED <<commonHeader, listeners, returned, streams, subs, axiosCalls>>

\* init(config)
init(cfg) ==
    /\ IF inited
       THEN UNCHANGED <<config, inited>>
       ELSE /\ config' = Spread(HTTP_DEFAULT_CONFIG, cfg)
            /\ inited' = TRUE
    /\ lastCall' = Call("init", cfg, FALSE)
    /\ UNCHANGED <<commonHeader, listeners, returned, streams, subs, axiosCalls>>

\* setCommonHeader(key, value)
setCommonHeader(key, value) ==
    /\ commonHeader' = Spread(commonHeader, [k \in {key} |-> value])
    /\ UNCHANGED <<inited, config, listeners, returned, streams, subs, axiosCalls, lastCall>>

\* The registry after listen(handle): handle under every topic.
RECURSIVE OnAll(_, _, _)
OnAll(reg, topics, h) ==
    IF topics = {} THEN reg
    ELSE LET t == CHOOSE x \in topics : TRUE
         IN  OnAll(PubSubOn(reg, t, h), topics \ {t}, h)

\* Mutant: the returned function removes only the latest registration.
ListenReturnLatest(reg) ==
    [t \in DOMAIN reg |->
        IF reg[t] = <<>> THEN <<>> ELSE SubSeq(reg[t], 1, Len(reg[t]) - 1)]

\* listen() returns this._pubsub.clear: the registry after a caller invokes it.
ListenReturn(reg) == PubSubClear(reg)

\* listen(handle)
listen(h) ==
    /\ \A t \in Topics : Len(listeners[t]) < MaxListeners
    /\ listeners' = OnAll(listeners, Topics, h)
    /\ returned' = TRUE
    /\ UNCHANGED <<commonHeader, inited, config, streams, subs, axiosCalls, lastCall>>

\* A caller invokes the function an earlier listen() returned.
Unlisten ==
    /\ returned
    /\ listeners' = ListenReturn(listeners)
    /\ UNCHANGED <<commonHeader, inited, config, returned, streams, subs, axiosCalls, lastCall>>

\* Mutant: request without the _inited check.
requestUnchecked(method, url, options) ==
    /\ Len(streams) < MaxStreams
    /\ streams' = Append(streams,
          [method |-> method, url |-> url, given |-> options,
           options |-> Spread(Spread(HTTP_DEFAULT_REQUEST_OPTION, config), options)])
    /\ lastCall' = Call("request", EmptyObject, FALSE)
    /\ UNCHANGED <<commonHeader, inited, config, listeners, returned, subs, axiosCalls>>

\* Mutant: a request that issues its Axios call when it is called.
requestEager(method, url, options) ==
    IF ~inited
    THEN /\ lastCall' = Call("request", EmptyObject, TRUE)
         /\ UNCHANGED <<commonHeader, inited, config, listeners, returned, streams, subs, axiosCalls>>
    ELSE /\ Len(streams) < MaxStreams
         /\ streams' = Append(streams,
               [method |-> method, url |-> url, given |-> options,
                options |-> Spread(Spread(HTTP_DEFAULT_REQUEST_OPTION, config), options)])
         /\ lastCall' = Call("request", EmptyObject, FALSE)
         /\ axiosCalls' = axiosCalls + 1
         /\ UNCHANGED <<commonHeader, inited, config, listeners, returned, subs>>

\* Mutant: the configuration spread over the per-call options.
requestConfigWins(method, url, options) ==
    IF ~inited
    THEN /\ lastCall' = Call("request", EmptyObject, TRUE)
         /\ UNCHANGED <<commonHeader, inited, config, listeners, returned, streams, subs, axiosCalls>>
    ELSE /\ Len(streams) < MaxStreams
         /\ streams' = Append(streams,
               [method |-> method, url |-> url, given |-> options,
                options |-> Spread(Spread(HTTP_DEFAULT_REQUEST_OPTION, options), config)])
         /\ lastCall' = Call("request", EmptyObject, FALSE)
         /\ UNCHANGED <<commonHeader, inited, config, listeners, returned, subs, axiosCalls>>

\* request(method, url, options)
request(method, url, options) ==
    IF ~inited
    THEN /\ lastCall' = Call("request", EmptyObject, TRUE)
         /\ UNCHANGED <<commonHeader, inited, config, listeners, returned, streams, subs, axiosCalls>>
    ELSE /\ Len(streams) < MaxStreams
         /\ streams' = Append(streams,
               [method |-> method, url |-> url, given |-> options,
                options |-> Spread(Spread(HTTP_DEFAULT_REQUEST_OPTION, config), options)])
         /\ lastCall' = Call("request", EmptyObject, FALSE)
         /\ UNCHANGED <<commonHeader, inited, config, listeners, returned, subs, axiosCalls>>

post(url, body, options) == request("post", url, Spread(options, [body |-> body]))
get(url, params, options) == request("get", url, Spread(options, [params |-> params]))
put(url, params, options) == request("put", url, Spread(options, [params |-> params]))
delete(url, params, options) == request("delete", url, Spread(options, [params |-> params]))

\* Mutant: one Axios call per stream, shared by its later subscriptions.
SubscribeShared(i) ==
    /\ i \in 1..Len(streams)
    /\ Len(subs) < MaxSubs
    /\ LET s == SubscribeBody(i, streams[i], listeners) IN
       /\ subs' = Append(subs, s)
       /\ axiosCalls' =
             IF s.promise = "pending" /\ \A k \in 1..Len(subs) : subs[k].stream # i
             THEN axiosCalls + 1 ELSE axiosCalls
       /\ streams' = [streams EXCEPT ![i].url =
                         IF s.promise = "pending" THEN BuiltUrl(streams[i]) ELSE @]
    /\ UNCHANGED <<commonHeader, inited, config, listeners, returned, lastCall>>

\* Mutant: the headers of the call are written back into the common headers.
SubscribeKeepsHeaders(i) ==
    /\ i \in 1..Len(streams)
    /\ Len(subs) < MaxSubs
    /\ LET s == SubscribeBody(i, streams[i], listeners) IN
       /\ subs' = Append(subs, s)
       /\ axiosCalls' = IF s.promise = "pending" THEN axiosCalls + 1 ELSE axiosCalls
       /\ streams' = [streams EXCEPT ![i].url =
                         IF s.promise = "pending" THEN BuiltUrl(streams[i]) ELSE @]
       /\ commonHeader' = IF s.promise = "pending" THEN s.sent.headers ELSE commonHeader
    /\ UNCHANGED <<inited, config, listeners, returned, lastCall>>

\* subscribe() on the i-th stream request() returned: the subscribe function
\* of _request runs, and the url it builds stays in the closure's url variable.
Subscribe(i) ==
    /\ i \in 1..Len(streams)
    /\ Len(subs) < MaxSubs
    /\ LET s == SubscribeBody(i, streams[i], listeners) IN
       /\ subs' = Append(subs, s)
       /\ axiosCalls' = IF s.promise = "pending" THEN axiosCalls + 1 ELSE axiosCalls
       /\ streams' = [streams EXCEPT ![i].url =
                         IF s.promise = "pending" THEN BuiltUrl(streams[i]) ELSE @]
    /\ UNCHANGED <<commonHeader, inited, config, listeners, returned, lastCall>>

OptionsOf(k) == streams[subs[k].stream].options

\* Axios calls onUploadProgress / onDownloadProgress of the k-th call with
\* its n-th native progress event.
onUploadProgress(k) ==
    /\ k \in 1..Len(subs)
    /\ subs[k].promise = "pending"
    /\ ProgressTotal < MaxProgress
    /\ LET n == subs[k].ticks + 1
           s == [subs[k] EXCEPT !.ticks = n]
       IN  subs' = [subs EXCEPT ![k] =
                       ObserverNext(s, listeners, OptionsOf(k), HttpUploadProgressEvent(n))]
    /\ UNCHANGED <<commonHeader, inited, config, listeners, returned, streams, axiosCalls, lastCall>>

onDownloadProgress(k) ==
    /\ k \in 1..Len(subs)
    /\ subs[k].promise = "pending"
    /\ ProgressTotal < MaxProgress
    /\ LET n == subs[k].ticks + 1
           s == [subs[k] EXCEPT !.ticks = n]
       IN  subs' = [subs EXCEPT ![k] =
                       ObserverNext(s, listeners, OptionsOf(k), HttpDownloadProgressEvent(n))]
    /\ UNCHANGED <<commonHeader, inited, config, listeners, returned, streams, axiosCalls, lastCall>>

\* The server answers the k-th call with (status, body): Axios asks
\* validateStatus and resolves or rejects; the callback runs.
AxiosAnswer(k, status, body) ==
    /\ k \in 1..Len(subs)
    /\ subs[k].promise = "pending"
    /\ LET s == [subs[k] EXCEPT !.promise = "settled"] IN
       subs' = [subs EXCEPT ![k] =
                  IF validateStatus(config, status)
                  THEN OnResolved(s, listeners, OptionsOf(k), AxiosResponse(status, body))
                  ELSE OnRejected(s, listeners, OptionsOf(k), AxiosError("http", status))]
    /\ UNCHANGED <<commonHeader, inited, config, listeners, returned, streams, axiosCalls, lastCall>>

\* The k-th call fails without a response (offline, timeout).
AxiosNetworkError(k) ==
    /\ k \in 1..Len(subs)
    /\ subs[k].promise = "pending"
    /\ LET s == [subs[k] EXCEPT !.promise = "settled"] IN
       subs' = [subs EXCEPT ![k] =
                  OnRejected(s, listeners, OptionsOf(k), AxiosError("network", 0))]
    /\ UNCHANGED <<commonHeader, inited, config, listeners, returned, streams, axiosCalls, lastCall>>

\* The subscriber unsubscribes: rxjs closes it and runs the teardown, and
\* the cancelled token aborts the call if it is still pending.
Unsubscribe(k) ==
    /\ k \in 1..Len(subs)
    /\ subs[k].state = "open"
    /\ LET s == Teardown(subs[k]) IN
       subs' = [subs EXCEPT ![k] =
                  [s EXCEPT !.state = "unsubscribed",
                            !.promise = IF s.token = "cancelled" /\ @ = "pending"
                                        THEN "aborted" ELSE @]]
    /\ UNCHANGED <<commonHeader, inited, config, listeners, returned, streams, axiosCalls, lastCall>>

\* The promise of an aborted call rejects with the Cancel: the .catch runs.
AxiosCancelled(k) ==
    /\ k \in 1..Len(subs)
    /\ subs[k].promise = "aborted"
    /\ LET s == [subs[k] EXCEPT !.promise = "settled"] IN
       subs' = [subs EXCEPT ![k] =
                  OnRejected(s, listeners, OptionsOf(k), AxiosError("cancel", 0))]
    /\ UNCHANGED <<commonHeader, inited, config, listeners, returned, streams, axiosCalls, lastCall>>

Next ==
    \/ \E cfg \in ConfigInputs : init(cfg)
    \/ \E h \in Handlers : listen(h)
    \/ Unlisten
    \/ \E m \in MethodInputs, u \in Urls, o \in OptionInputs : request(m, u, o)
    \/ \E u \in Urls : post(u, "{}", EmptyObject)
    \/ \E u \in Urls : get(u, <<>>, EmptyObject)
    \/ \E u \in Urls : put(u, <<>>, EmptyObject)
    \/ \E u \in Urls : delete(u, <<>>, EmptyObject)
    \/ \E i \in 1..MaxStreams : Subscribe(i)
    \/ \E k \in 1..MaxSubs : onUploadProgress(k)
    \/ \E k \in 1..MaxSubs : onDownloadProgress(k)
    \/ \E k \in 1..MaxSubs, st \in HttpStatuses, b \in Bodies : AxiosAnswer(k, st, b)
    \/ \E k \in 1..MaxSubs : AxiosNetworkError(k)
    \/ \E k \in 1..MaxSubs : Unsubscribe(k)
    \/ \E k \in 1..MaxSubs : AxiosCancelled(k)

Spec == Init /\ [][Next]_vars

(* ---- the client used with common headers, configured options, per-call ---- *)
(* ---- options and query parameters: one init call, at most one listener ---- *)
(* ---- registration that is never cleared, and no progress reports       ---- *)
HeaderKeys == {"a"}
HeaderValues == {"1", "2"}
ConfigOptionInputs ==
    { EmptyObject,
      [timeout |-> 7, validateStatus |-> "any",
       successCode |-> [array |-> TRUE, values |-> <<1, 2>>]],
      [validateStatus |-> Undef],
      [validateStatus |-> "notFunction"] }
CallOptionInputs ==
    { EmptyObject,
      [header |-> [k \in {"a"} |-> "own"], timeout |-> 9, validateStatus |-> "is2xx"],
      [header |-> [k \in {"b"} |-> "own"], observe |-> "event",
       successCode |-> [array |-> FALSE, value |-> 1]] }
ParamInputs == { <<>>, << <<"q", "a b">>, <<"skip", Undef>>, <<"k&", "1">> >> }
OptionBodies ==
    { JsNull,
      JsObject([data |-> Payload]),
      JsObject([code |-> 0, data |-> Payload]),
      JsObject([code |-> 1, data |-> Payload]) }
OptionStatuses == {200, 500}

NextOptions ==
    \/ \E cfg \in ConfigOptionInputs : ~inited /\ init(cfg)
    \/ \E key \in HeaderKeys, value \in HeaderValues : setCommonHeader(key, value)
    \/ \E h \in Handlers : listeners = NoListeners /\ listen(h)
    \/ \E o \in CallOptionInputs : request("get", "/a", o)
    \/ \E u \in {"", "/a", "/a?"}, p \in ParamInputs : get(u, p, EmptyObject)
    \/ \E i \in 1..MaxStreams : Subscribe(i)
    \/ \E k \in 1..MaxSubs, st \in OptionStatuses, b \in OptionBodies : AxiosAnswer(k, st, b)
    \/ \E k \in 1..MaxSubs : AxiosNetworkError(k)
    \/ \E k \in 1..MaxSubs : Unsubscribe(k)
    \/ \E k \in 1..MaxSubs : AxiosCancelled(k)

SpecOptions == Init /\ [][NextOptions]_vars

(* ======================================================================= *)
(* The claims.                                                             *)
(* ======================================================================= *)
SubIds == 1..Len(subs)
StreamOf(k) == streams[subs[k].stream]
Ended(s) == s.state \in {"completed", "errored"}
\* The allow-list as spec.md states it, and a request the executor accepts.
AllowList == {"delete", "get", "head", "options", "patch", "post", "put", "jsonp"}
ValidRequest(st) == st.url # "" /\ st.method \in AllowList
IsResult(v) == v.type = "result"
Last(q) == q[Len(q)]

\* A step that is a call of request or of one of the verb shortcuts.
RequestCall ==
    \/ \E m \in MethodInputs, u \in Urls, o \in OptionInputs : request(m, u, o)
    \/ \E u \in Urls : post(u, "{}", EmptyObject)
    \/ \E u \in Urls : get(u, <<>>, EmptyObject)
    \/ \E u \in Urls : put(u, <<>>, EmptyObject)
    \/ \E u \in Urls : delete(u, <<>>, EmptyObject)

(* C3: a call of request, get, post, put or delete made while the client   *)
(* is uninitialized throws at the call, returns no stream and issues no    *)
(* transport call; and while the client is uninitialized there is no       *)
(* stream, no subscription and no transport call at all.                   *)
C3_UninitializedRequestThrows ==
    [][ /\ (~inited /\ RequestCall) =>
             /\ lastCall'.op = "request" /\ lastCall'.threw
             /\ streams' = streams /\ subs' = subs /\ axiosCalls' = axiosCalls
        /\ ~inited' => (streams' = <<>> /\ subs' = <<>> /\ axiosCalls' = 0) ]_vars

\* The client is still uninitialized and its latest request call threw.
C3_Witness == ~inited /\ lastCall.op = "request" /\ lastCall.threw

(* C4: once init has run the client stays initialized and the stored       *)
(* configuration never changes again: it is the built-in defaults overlaid *)
(* with the first call's config, whatever config a later init is given.    *)
C4_InitOneWay ==
    [][ /\ inited => (inited' /\ config' = config)
        /\ (~inited /\ inited') =>
              (lastCall'.op = "init"
               /\ config' = Spread(HTTP_DEFAULT_CONFIG, lastCall'.arg)) ]_vars

\* The latest call was an init whose config would have produced another
\* configuration than the stored one.
C4_Witness ==
    /\ inited /\ lastCall.op = "init"
    /\ Spread(HTTP_DEFAULT_CONFIG, lastCall.arg) # config

(* C5: a subscription that executes a request whose method is outside the  *)
(* allow-list, or whose url is empty, fails (its stream carries the        *)
(* argument error) and never issues a transport call: it has no promise,   *)
(* no cancellation token and no progress.                                  *)
C5_InvalidArgumentNoTransport ==
    \A k \in SubIds :
        ~ValidRequest(StreamOf(k)) =>
            /\ subs[k].promise = "none" /\ subs[k].token = "none" /\ subs[k].ticks = 0
            /\ Ended(subs[k])
            /\ \A n \in 1..Len(subs[k].log) :
                  /\ IsResult(subs[k].log[n]) /\ ~subs[k].log[n].isSuccess
                  /\ subs[k].log[n].response.type = "Error"

\* A request with a method outside the allow-list and a url was executed.
C5_Witness ==
    \E k \in SubIds :
        /\ StreamOf(k).url # "" /\ StreamOf(k).method \notin AllowList
        /\ Ended(subs[k])

(* C1 as stated: whatever the transport outcome and whatever the listeners *)
(* do, a subscriber never receives an error notification; a stream that    *)
(* ended delivered a result carrying isSuccess and then completed.         *)
C1_NeverAnErrorNotification ==
    \A k \in SubIds :
        /\ subs[k].state # "errored" /\ subs[k].thrown = <<>>
        /\ subs[k].state = "completed" =>
              /\ subs[k].log # <<>>
              /\ IsResult(Last(subs[k].log))
              /\ Last(subs[k].log).isSuccess \in BOOLEAN

(* C1 amended: a subscriber receives an error notification only when a bus *)
(* listener invoked for the failure threw, and then no result; otherwise   *)
(* every transport outcome ends the stream with one terminal value and     *)
(* completion, the value being a result carrying isSuccess, except that    *)
(* with observe other than Body a transport success is the raw response.   *)
C1_ErrorOnlyFromThrowingListener ==
    \A k \in SubIds :
        LET s == subs[k]
            observe == StreamOf(k).options.observe
        IN  /\ (s.promise = "settled" /\ s.state # "unsubscribed") => Ended(s)
            /\ (s.state = "errored") = (s.thrown # <<>>)
            /\ s.state = "errored" =>
                  /\ s.calls # <<>> /\ HandlerThrows(Last(s.calls).handler)
                  /\ \A n \in 1..Len(s.log) : IsProgress(s.log[n])
            /\ s.state = "completed" =>
                  /\ s.log # <<>>
                  /\ \/ IsResult(Last(s.log)) /\ Last(s.log).isSuccess \in BOOLEAN
                     \/ /\ observe # HttpObserveType.Body
                        /\ Last(s.log).type = "response"
                  /\ \A n \in 1..Len(s.calls) : ~HandlerThrows(s.calls[n].handler)

\* A transport failure for which listeners ran and returned, delivered as a
\* failure result on a completed stream.
C1_Witness ==
    \E k \in SubIds :
        /\ subs[k].state = "completed" /\ subs[k].calls # <<>>
        /\ IsResult(Last(subs[k].log)) /\ ~Last(subs[k].log).isSuccess

C6_InvalidArgumentRaisedAtRequest ==
    /\ \A i \in 1..Len(streams) : ValidRequest(streams[i])
    /\ \A k \in SubIds :
          ~ValidRequest(StreamOf(k)) =>
              ~(subs[k].state = "completed" /\ subs[k].log # <<>>
                /\ IsResult(Last(subs[k].log)) /\ ~Last(subs[k].log).isSuccess)

(* C6 amended: request throws only while the client is uninitialized; a    *)
(* missing url or an invalid method is detected when the returned stream   *)
(* is subscribed and is recovered by the facade: the subscriber receives   *)
(* {result: null, response: the Error, isSuccess: false} and completion,   *)
(* no error notification, and no listener is invoked.                      *)
C6_InvalidArgumentRecovered ==
    /\ lastCall.threw => ~inited
    /\ \A k \in SubIds :
          ~ValidRequest(StreamOf(k)) =>
              /\ subs[k].state = "completed" /\ subs[k].thrown = <<>>
              /\ subs[k].calls = <<>>
              /\ Len(subs[k].log) = 1
              /\ IsResult(subs[k].log[1]) /\ ~subs[k].log[1].isSuccess
              /\ subs[k].log[1].result = JsNull
              /\ subs[k].log[1].response.type = "Error"

\* A request with an empty url was executed while a listener was registered.
C6_Witness ==
    \E k \in SubIds :
        /\ StreamOf(k).url = "" /\ subs[k].state = "completed"
        /\ \E t \in Topics : listeners[t] # <<>>

\* The classification table of the claim: the topic for a status, if any.
Classification(status) ==
    CASE status = 0 -> HttpErrorCodeType.Offline
      [] status = 401 -> HttpErrorCodeType.UnAuth
      [] status = 404 -> HttpErrorCodeType.NotFound
      [] status >= 500 -> HttpErrorCodeType.Server
      [] OTHER -> Undef

\* In this step an HttpResponseError reached the facade of subscription k:
\* its stream ended with a failure result or with an error notification.
ResponseErrorReached(k) ==
    /\ subs[k].state = "open" /\ Ended(subs'[k])
    /\ \/ subs'[k].state = "errored"
       \/ IsResult(Last(subs'[k].log)) /\ ~Last(subs'[k].log).isSuccess

\* The error that reached the facade.
ReachedError(s) ==
    IF s.state = "errored" THEN s.calls[1].err ELSE Last(s.log).response

\* One invocation per registration under the status' topic, in registration
\* order, each with (classification, error, options); none when the status
\* has no classification.
ExpectedCalls(reg, err, options) ==
    LET topic == Classification(err.status) IN
    IF topic = Undef THEN <<>>
    ELSE [n \in 1..Len(reg[topic]) |->
            [handler |-> reg[topic][n], topic |-> topic, err |-> err, options |-> options]]

(* C7 as stated: when a ResponseError with status s reaches the facade,    *)
(* every handler registered through listen is invoked exactly once per     *)
(* registration with (classification, error, options) for s = 0, 401, 404  *)
(* and s >= 500, and no handler is invoked for any other status.           *)
C7_EveryRegistrationInvokedOnce ==
    [][ \A k \in SubIds :
          ResponseErrorReached(k) =>
              subs'[k].calls =
                  ExpectedCalls(listeners, ReachedError(subs'[k]), OptionsOf(k)) ]_vars

(* C7 amended: the handlers registered under the status' classification    *)
(* are invoked in registration order, once per registration, with          *)
(* (classification, error, options), up to and including the first one     *)
(* that throws; handlers registered after a throwing one are not invoked.  *)
(* For a status outside the table no handler is invoked.                   *)
C7_RegistrationsInvokedUntilThrow ==
    [][ \A k \in SubIds :
          ResponseErrorReached(k) =>
              LET exp == ExpectedCalls(listeners, ReachedError(subs'[k]), OptionsOf(k))
                  c == subs'[k].calls
              IN  /\ Len(c) <= Len(exp)
                  /\ \A n \in 1..Len(c) : c[n] = exp[n]
                  /\ \A n \in 1..(Len(c) - 1) : ~HandlerThrows(c[n].handler)
                  /\ Len(c) < Len(exp) => (c # <<>> /\ HandlerThrows(Last(c).handler)) ]_vars

\* A status 500 failure for which two registrations were invoked.
C7_Witness ==
    \E k \in SubIds :
        /\ Len(subs[k].calls) = 2
        /\ subs[k].calls[2].topic = HttpErrorCodeType.Server
        /\ subs[k].calls[2].err.status = 500

TransportCallsOf(i) ==
    Cardinality({k \in SubIds : subs[k].stream = i /\ subs[k].promise # "none"})

(* C9 as stated: a valid request call that was executed has exactly one    *)
(* underlying transport call, never more, whatever its outcome.            *)
C9_OneTransportCallPerRequestCall ==
    \A i \in 1..Len(streams) :
        (ValidRequest(streams[i]) /\ \E k \in SubIds : subs[k].stream = i) =>
            TransportCallsOf(i) = 1

(* C9 amended: every subscription to the stream of a valid request issues  *)
(* exactly one transport call, at subscription, whatever its outcome and   *)
(* with no retry; a request call whose stream is never subscribed issues   *)
(* none, and each further subscription to the same stream issues one more. *)
C9_OneTransportCallPerSubscription ==
    /\ axiosCalls = Cardinality({k \in SubIds : ValidRequest(StreamOf(k))})
    /\ \A k \in SubIds : (subs[k].promise # "none") = ValidRequest(StreamOf(k))
    /\ \A i \in 1..Len(streams) :
          TransportCallsOf(i) =
              IF ValidRequest(streams[i])
              THEN Cardinality({k \in SubIds : subs[k].stream = i})
              ELSE 0

\* One stream subscribed twice: one call was cancelled, the other failed.
C9_Witness ==
    /\ axiosCalls = 2
    /\ \E k, j \in SubIds :
          /\ subs[k].stream = subs[j].stream
          /\ subs[k].state = "unsubscribed" /\ subs[k].promise = "settled"
          /\ subs[j].state = "completed"
          /\ IsResult(Last(subs[j].log)) /\ ~Last(subs[j].log).isSuccess

IsPrefix(p, q) == Len(p) <= Len(q) /\ \A n \in 1..Len(p) : p[n] = q[n]

(* C10: unsubscribing a subscription whose stream has not ended cancels    *)
(* its own cancellation token and thereby aborts its pending Axios call;   *)
(* what the subscriber had received stays as it was, every other           *)
(* subscription and its call are untouched, and a call is only ever        *)
(* aborted by the unsubscription of its own subscriber.                    *)
C10_UnsubscribeCancelsOwnCall ==
    [][ \A k \in SubIds :
          /\ IsPrefix(subs[k].log, subs'[k].log)
          /\ (subs[k].state = "open" /\ subs'[k].state = "unsubscribed") =>
                /\ subs'[k].token = "cancelled"
                /\ subs[k].promise = "pending" => subs'[k].promise = "aborted"
                /\ subs'[k].log = subs[k].log
                /\ \A j \in SubIds \ {k} : subs'[j] = subs[j]
          /\ (subs[k].promise # "aborted" /\ subs'[k].promise = "aborted") =>
                (subs[k].state = "open" /\ subs'[k].state = "unsubscribed") ]_vars

\* A subscriber that had received a progress event unsubscribed and its call
\* was aborted, while another call is still pending with a live token.
C10_Witness ==
    \E k, j \in SubIds :
        /\ subs[k].state = "unsubscribed" /\ subs[k].promise = "aborted"
        /\ subs[k].token = "cancelled" /\ subs[k].log # <<>>
        /\ subs[j].promise = "pending" /\ subs[j].token = "live"

(* ----------------------------------------------------------------------- *)
\* The value of option field f by precedence: the call's own value when the
\* call gave one, else the configuration's (init's value over the built-in
\* default configuration), else the built-in default request option.
Precedence(st, f) ==
    IF f \in DOMAIN st.given THEN st.given[f]
    ELSE IF f \in DOMAIN config THEN config[f]
    ELSE Get(HTTP_DEFAULT_REQUEST_OPTION, f)

\* The timeout by precedence; without any, Axios is given 0.
PrecedenceTimeout(st) ==
    IF "timeout" \in DOMAIN st.given THEN st.given.timeout
    ELSE IF "timeout" \in DOMAIN config THEN config.timeout
    ELSE 0

\* The option fields the pipe of request reads.
PipeFields == {"observe", "responseType", "responseResultKey", "successCode"}

\* The options of every stream and the timeout of every Axios call follow
\* the precedence.
MergedByPrecedence ==
    /\ \A i \in 1..Len(streams) :
          \A f \in PipeFields : streams[i].options[f] = Precedence(streams[i], f)
    /\ \A k \in SubIds :
          subs[k].promise # "none" => subs[k].sent.timeout = PrecedenceTimeout(StreamOf(k))

\* Predicate v, as the validateStatus callback would apply it to a status.
Validates(v, status) == IsFunction(v) /\ Apply(v, status)

\* Subscription s ended on a transport success: Axios resolved its call.
Resolved(s) ==
    LET tr(e) == e.type = "response"
                 \/ (e.type = "HttpResponseError" /\ e.original.type = "response")
    IN  IF s.state = "errored" THEN tr(s.calls[1].err)
        ELSE /\ s.log # <<>>
             /\ \/ Last(s.log).type = "response"
                \/ IsResult(Last(s.log)) /\ tr(Last(s.log).response)

(* C11 as stated: for every option field, the status-validation predicate  *)
(* included, the value in effect for a request is the per-call value when  *)
(* the call supplies one, else the value given to init, else the built-in  *)
(* default: the pipe's options and the timeout sent follow the precedence, *)
(* and a response is accepted exactly when the predicate chosen by         *)
(* precedence accepts its status.                                          *)
C11_PerCallValueWinsForEveryField ==
    [][ /\ MergedByPrecedence'
        /\ \A k \in SubIds, status \in OptionStatuses, b \in OptionBodies :
              (AxiosAnswer(k, status, b) /\ subs[k].state = "open") =>
                  (Resolved(subs'[k]) =
                      Validates(Precedence(StreamOf(k), "validateStatus"), status)) ]_vars

(* C11 amended: for every option field other than the status-validation    *)
(* predicate the value in effect is the per-call value when the call       *)
(* supplies one, else the value given to init, else the built-in default;  *)
(* the predicate applied to a response is always the configuration's       *)
(* (init's value, else the built-in default), and a predicate supplied     *)
(* with the call is ignored.                                               *)
C11_PerCallValueWinsExceptPredicate ==
    [][ /\ MergedByPrecedence'
        /\ \A k \in SubIds, status \in OptionStatuses, b \in OptionBodies :
              (AxiosAnswer(k, status, b) /\ subs[k].state = "open") =>
                  (Resolved(subs'[k]) =
                      Validates(Get(config, "validateStatus"), status)) ]_vars

\* A call that gave its own timeout and its own predicate, on a client
\* configured with other ones: the call's timeout was sent, and a status 500
\* answer, which the call's predicate rejects, was delivered as a success.
C11_Witness ==
    \E k \in SubIds :
        /\ "timeout" \in DOMAIN config /\ config.timeout = 7
        /\ config.validateStatus = "any"
        /\ "validateStatus" \in DOMAIN StreamOf(k).given
        /\ StreamOf(k).given.validateStatus = "is2xx"
        /\ subs[k].sent.timeout = 9
        /\ subs[k].state = "completed"
        /\ IsResult(Last(subs[k].log)) /\ Last(subs[k].log).isSuccess
        /\ Last(subs[k].log).response.status = 500

(* ----------------------------------------------------------------------- *)
\* The header option the call of stream st gave, none being the empty object.
OwnHeader(st) == IF "header" \in DOMAIN st.given THEN st.given.header ELSE EmptyObject

\* Mapping h is mapping common overlaid with mapping own: the keys of both,
\* own's value on every key it has.
Overlaid(h, common, own) ==
    /\ DOMAIN h = (DOMAIN common) \cup (DOMAIN own)
    /\ \A key \in DOMAIN h :
          h[key] = IF key \in DOMAIN own THEN own[key] ELSE common[key]

(* C12: the common-header mapping holds, per key, the value of the latest   *)
(* setCommonHeader call and is changed by nothing else; the headers handed *)
(* to the transport for a request are that mapping overlaid with the       *)
(* request's own header option, the per-call value winning on every key    *)
(* both have; and issuing the request leaves the mapping as it was.        *)
C12_HeadersCommonOverlaidByCall ==
    [][ /\ \A k \in 1..Len(subs') :
              (k \notin SubIds /\ subs'[k].promise # "none") =>
                  /\ Overlaid(subs'[k].sent.headers, commonHeader,
                              OwnHeader(streams[subs'[k].stream]))
                  /\ commonHeader' = commonHeader
        /\ \A k \in SubIds : subs'[k].sent = subs[k].sent
        /\ commonHeader' # commonHeader =>
              /\ subs' = subs /\ streams' = streams
              /\ \E key \in HeaderKeys, value \in HeaderValues :
                    /\ DOMAIN commonHeader' = (DOMAIN commonHeader) \cup {key}
                    /\ commonHeader'[key] = value
                    /\ \A x \in DOMAIN commonHeader :
                          x # key => commonHeader'[x] = commonHeader[x] ]_vars

\* Common header a was set to 1 and then to 2; one request was sent with its
\* own value for a, and its Axios call carries the own value.
C12_Witness ==
    \E k \in SubIds :
        /\ "a" \in DOMAIN commonHeader /\ commonHeader["a"] = "2"
        /\ subs[k].promise # "none"
        /\ "a" \in DOMAIN OwnHeader(StreamOf(k))
        /\ subs[k].sent.headers["a"] = "own"

(* ----------------------------------------------------------------------- *)
\* The progress events subscription s has received, in order.
ProgressOf(s) == SelectSeq(s.log, IsProgress)

(* C13: a subscriber to a request whose observe is not Event has received  *)
(* no upload or download progress event, bare or inside a result, however  *)
(* many the transport reported; a subscriber to a request whose observe is Event has received *)
(* every progress event the transport reported for its call, in order.     *)
C13_ProgressOnlyWhenObservingEvents ==
    \A k \in SubIds :
        LET prog == ProgressOf(subs[k]) IN
        IF OptionsOf(k).observe = HttpObserveType.Event
        THEN /\ Len(prog) = subs[k].ticks
             /\ \A n \in 1..Len(prog) : prog[n].n = n
        ELSE /\ prog = <<>>
             /\ \A n \in 1..Len(subs[k].log) :
                   IsResult(subs[k].log[n]) => ~IsProgress(subs[k].log[n].response)

\* A request observing the body whose transport reported two progress events
\* and then answered: the subscriber has received the terminal value only.
C13_Witness ==
    \E k \in SubIds :
        /\ OptionsOf(k).observe = HttpObserveType.Body
        /\ subs[k].ticks = 2 /\ subs[k].state = "completed"
        /\ Len(subs[k].log) = 1

(* ----------------------------------------------------------------------- *)
(* C14: when a ResponseError reaches the facade, the error is classified   *)
(* and all matching bus listeners are invoked before the subscriber is     *)
(* handed the failure result: a subscriber that has the failure result     *)
(* {result: null, response: error, isSuccess: false} finds every matching  *)
(* listener already invoked, each with the very error the result carries,  *)
(* and a listener that throws does so before any result is delivered, so   *)
(* the subscriber has received nothing more.                               *)
C14_ListenersRunBeforeFailureResult ==
    [][ \A k \in SubIds :
          ResponseErrorReached(k) =>
              IF subs'[k].state = "completed"
              THEN LET r == Last(subs'[k].log) IN
                   /\ r = FailureResult(r.response)
                   /\ Len(subs'[k].log) = Len(subs[k].log) + 1
                   /\ r.response.type = "HttpResponseError"
                   /\ subs'[k].calls = ExpectedCalls(listeners, r.response, OptionsOf(k))
                   /\ \A n \in 1..Len(subs'[k].calls) : subs'[k].calls[n].err = r.response
              ELSE /\ subs'[k].log = subs[k].log
                   /\ subs'[k].calls # <<>>
                   /\ HandlerThrows(Last(subs'[k].calls).handler) ]_vars

\* A network failure for which a listener was invoked under Offline with the
\* error that the delivered failure result carries.
C14_Witness ==
    \E k \in SubIds :
        /\ subs[k].state = "completed" /\ Len(subs[k].calls) = 1
        /\ subs[k].calls[1].topic = HttpErrorCodeType.Offline
        /\ Last(subs[k].log) = FailureResult(subs[k].calls[1].err)

(* ----------------------------------------------------------------------- *)
\* The response Axios resolved the call of subscription s with.
ResolvedWith(s) ==
    LET e == IF s.state = "errored" THEN s.calls[1].err
             ELSE IF IsResult(Last(s.log)) THEN Last(s.log).response
             ELSE Last(s.log)
    IN  IF e.type = "response" THEN e ELSE e.original

\* The success-code set of the options: a scalar is a one-element set.
SuccessCodeSet(options) ==
    IF options.successCode.array
    THEN {options.successCode.values[n] : n \in 1..Len(options.successCode.values)}
    ELSE {options.successCode.value}

\* The body is present, its code-named field is defined and its value is a
\* member of the success-code set.
BodySaysSuccess(body, options) ==
    /\ body.t = "object"
    /\ options.responseResultKey.code \in DOMAIN body.v
    /\ body.v[options.responseResultKey.code] \in SuccessCodeSet(options)

\* The body's data-named field.
DataOf(body, options) ==
    IF options.responseResultKey.data \in DOMAIN body.v
    THEN body.v[options.responseResultKey.data] ELSE JsUndefined

\* Subscription k observes the body as json and its call was resolved with an
\* object body.
JsonBodyResolved(k) ==
    /\ OptionsOf(k).observe = HttpObserveType.Body
    /\ OptionsOf(k).responseType = "json"
    /\ Ended(subs[k]) /\ Resolved(subs[k])
    /\ TypeofObject(ResolvedWith(subs[k]).data)

(* C15 as stated: for a request observing the body with responseType json  *)
(* whose call succeeds with an object body, the terminal result is         *)
(* {result: the body's data field, isSuccess: true} exactly when the body  *)
(* is present, its code field is defined and a member of the success-code  *)
(* set; in every other case it is a failure result with result null.       *)
C15_SuccessIffCodeInSet ==
    \A k \in SubIds :
        JsonBodyResolved(k) =>
            LET response == ResolvedWith(subs[k])
                r == Last(subs[k].log)
            IN  /\ subs[k].state = "completed" /\ IsResult(r)
                /\ IF BodySaysSuccess(response.data, OptionsOf(k))
                   THEN r = SuccessResult(DataOf(response.data, OptionsOf(k)), response)
                   ELSE r.result = JsNull /\ ~r.isSuccess

(* C15 amended: the terminal result is {result: the body's data field,     *)
(* isSuccess: true} exactly when the body is present, its code field is    *)
(* defined and a member of the success-code set (a scalar success code     *)
(* being a one-element set); in every other case no success is delivered:  *)
(* the terminal result is the failure result with result null, unless a    *)
(* bus listener invoked for the failure throws, and then the subscriber    *)
(* receives the error notification and no result.                          *)
C15_SuccessIffCodeInSetUnlessListenerThrows ==
    \A k \in SubIds :
        JsonBodyResolved(k) =>
            LET response == ResolvedWith(subs[k])
                s == subs[k]
            IN  IF BodySaysSuccess(response.data, OptionsOf(k))
                THEN /\ s.state = "completed"
                     /\ Last(s.log) = SuccessResult(DataOf(response.data, OptionsOf(k)), response)
                ELSE IF s.state = "completed"
                THEN /\ Last(s.log) = FailureResult(HttpResponseError(response, OptionsOf(k)))
                     /\ Last(s.log).result = JsNull /\ ~Last(s.log).isSuccess
                ELSE /\ s.log = <<>>
                     /\ HandlerThrows(Last(s.calls).handler)

\* With the success codes 1 and 2 configured, a body with code 0 ended as a
\* failure result.
C15_Witness ==
    \E k \in SubIds :
        /\ JsonBodyResolved(k) /\ subs[k].state = "completed"
        /\ OptionsOf(k).successCode.array
        /\ ResolvedWith(subs[k]).data = JsObject([code |-> 0, data |-> Payload])
        /\ ~Last(subs[k].log).isSuccess

(* ----------------------------------------------------------------------- *)
\* The configuration's status-validation predicate is absent or not callable.
NoPredicate == ~IsFunction(Get(config, "validateStatus"))

\* The failure result for a response of the given status that was treated
\* as invalid.
InvalidStatusResult(status, options) ==
    FailureResult(HttpResponseError(AxiosError("http", status), options))

(* C16 as stated: if the configured status-validation predicate is absent  *)
(* or not callable, every transport response is treated as invalid         *)
(* whatever its HTTP status, and the request ends with a failure result.   *)
C16_NoPredicateEndsInFailureResult ==
    [][ \A k \in SubIds, status \in OptionStatuses, b \in OptionBodies :
          (NoPredicate /\ AxiosAnswer(k, status, b)) =>
              /\ subs'[k].state = "completed"
              /\ Last(subs'[k].log) = InvalidStatusResult(status, OptionsOf(k)) ]_vars

(* C16 amended: if the configured status-validation predicate is absent or *)
(* not callable, every transport response is treated as invalid whatever   *)
(* its HTTP status, so the request never ends with isSuccess true or with  *)
(* the raw response: it ends with the failure result, unless a bus         *)
(* listener invoked for the failure throws, and then it ends with an error *)
(* notification and no result.                                             *)
C16_NoPredicateNeverSucceeds ==
    [][ \A k \in SubIds, status \in OptionStatuses, b \in OptionBodies :
          (NoPredicate /\ AxiosAnswer(k, status, b)) =>
              /\ ~Resolved(subs'[k])
              /\ IF subs'[k].state = "completed"
                 THEN Last(subs'[k].log) = InvalidStatusResult(status, OptionsOf(k))
                 ELSE /\ subs'[k].state = "errored"
                      /\ subs'[k].log = subs[k].log
                      /\ HandlerThrows(Last(subs'[k].calls).handler)
                      /\ Last(subs'[k].calls).err.original = AxiosError("http", status) ]_vars

\* Initialized without a predicate, a status 200 answer ended as a failure
\* result.
C16_Witness ==
    \E k \in SubIds :
        /\ config.validateStatus = Undef
        /\ subs[k].state = "completed"
        /\ Last(subs[k].log) = InvalidStatusResult(200, OptionsOf(k))

(* ----------------------------------------------------------------------- *)
\* The client state requests share.
ClientState == <<config, inited, commonHeader, listeners>>

(* C17: a step that issues a request (the request call or a subscription), *)
(* completes it, fails it or cancels it leaves the configuration, the      *)
(* initialized flag, the common-header mapping and the bus listener        *)
(* registry unchanged; such a step changes one subscription only, and the  *)
(* options of a stream and the request config of an issued call never      *)
(* change afterwards.                                                      *)
C17_RequestsLeaveClientStateAlone ==
    [][ /\ (streams' # streams \/ subs' # subs \/ axiosCalls' # axiosCalls) =>
              ClientState' = ClientState
        /\ \A j, k \in SubIds :
              (subs'[j] # subs[j] /\ subs'[k] # subs[k]) => j = k
        /\ \A k \in SubIds : subs'[k].sent = subs[k].sent
        /\ \A i \in 1..Len(streams) :
              /\ streams'[i].options = streams[i].options
              /\ streams'[i].given = streams[i].given ]_vars

\* With a configuration, a common header and a listener in place, one call
\* of a stream ended in a failure result and another was cancelled.
C17_Witness ==
    /\ inited /\ "timeout" \in DOMAIN config
    /\ commonHeader # EmptyObject
    /\ \E t \in Topics : listeners[t] # <<>>
    /\ \E j, k \in SubIds :
          /\ subs[j].state = "completed" /\ subs[j].calls # <<>>
          /\ subs[k].state = "unsubscribed" /\ subs[k].promise = "settled"

(* ----------------------------------------------------------------------- *)
(* C18: with observe equal to Event the response interpreter is not        *)
(* applied: a transport success is delivered to the subscriber as the raw  *)
(* transport response, unchanged and not wrapped in a result, whatever its *)
(* body; a body whose code is outside the success-code set produces no     *)
(* failure result and no listener is invoked.                              *)
C18_EventModeDeliversRawResponse ==
    [][ \A k \in SubIds :
          ( /\ OptionsOf(k).observe = HttpObserveType.Event
            /\ subs[k].promise = "pending" /\ subs'[k].promise = "settled" ) =>
              \A status \in HttpStatuses, b \in Bodies :
                  (validateStatus(config, status) /\ AxiosAnswer(k, status, b)) =>
                      /\ subs'[k].log = Append(subs[k].log, AxiosResponse(status, b))
                      /\ subs'[k].state = "completed"
                      /\ subs'[k].calls = <<>> /\ subs'[k].thrown = <<>> ]_vars

\* Observing events with a listener registered, an answer whose body has
\* code 1, outside the success codes, was delivered as the raw response.
C18_Witness ==
    \E k \in SubIds :
        /\ OptionsOf(k).observe = HttpObserveType.Event
        /\ \E t \in Topics : listeners[t] # <<>>
        /\ subs[k].state = "completed"
        /\ Last(subs[k].log) = AxiosResponse(200, JsObject([code |-> 1, data |-> Payload]))
        /\ 1 \notin SuccessCodeSet(OptionsOf(k))

(* ----------------------------------------------------------------------- *)
(* C19: once a subscriber has unsubscribed before the terminal event,      *)
(* nothing further happens for its request: it stays unsubscribed, its     *)
(* call reports no more progress, it receives no later progress, result or *)
(* error, and the rejection of the cancelled call is not classified and    *)
(* invokes no bus listener.                                                *)
C19_NothingAfterUnsubscribe ==
    [][ \A k \in SubIds :
          subs[k].state = "unsubscribed" =>
              /\ subs'[k].state = "unsubscribed"
              /\ subs'[k].log = subs[k].log
              /\ subs'[k].thrown = subs[k].thrown /\ subs'[k].thrown = <<>>
              /\ subs'[k].calls = subs[k].calls /\ subs'[k].calls = <<>>
              /\ subs'[k].ticks = subs[k].ticks
              /\ subs'[k] # subs[k] =>
                    subs'[k] = [subs[k] EXCEPT !.promise = "settled"] ]_vars

\* A subscriber unsubscribed, the rejection of its cancelled call has been
\* handled, and the listeners registered under Offline were not invoked.
C19_Witness ==
    \E k \in SubIds :
        /\ subs[k].state = "unsubscribed" /\ subs[k].promise = "settled"
        /\ subs[k].token = "cancelled"
        /\ Len(listeners[HttpErrorCodeType.Offline]) = 2
        /\ subs[k].calls = <<>>

(* ----------------------------------------------------------------------- *)
(* C20: the stream request returns is lazy.  The request call itself only  *)
(* returns the stream, also for arguments the executor rejects: it makes   *)
(* no subscription and no transport call.  Each subscription validates the *)
(* arguments, builds the url, overlays the common headers as they are at   *)
(* that moment with the request's own and issues its own transport call    *)
(* with its own cancellation token, so a setCommonHeader call made between *)
(* request returning and the subscription is reflected in the headers      *)
(* sent, and a token is only ever cancelled for one subscription at a time.*)
C20_LazyStream ==
    [][ /\ Len(streams') > Len(streams) =>
              /\ ~lastCall'.threw
              /\ subs' = subs /\ axiosCalls' = axiosCalls
        /\ axiosCalls' # axiosCalls => Len(subs') = Len(subs) + 1
        /\ \A k \in 1..Len(subs') :
              k \notin SubIds =>
                  LET st == streams[subs'[k].stream] IN
                  IF ValidRequest(st)
                  THEN /\ subs'[k].promise = "pending" /\ subs'[k].token = "live"
                       /\ axiosCalls' = axiosCalls + 1
                       /\ subs'[k].sent.url = BuiltUrl(st)
                       /\ Overlaid(subs'[k].sent.headers, commonHeader, OwnHeader(st))
                  ELSE /\ subs'[k].promise = "none" /\ subs'[k].token = "none"
                       /\ axiosCalls' = axiosCalls
                       /\ subs'[k].state = "completed"
                       /\ Last(subs'[k].log).response.type = "Error"
        /\ \A j, k \in SubIds :
              (subs'[j].token # subs[j].token /\ subs'[k].token # subs[k].token) => j = k ]_vars

\* Two subscriptions to one stream, with a setCommonHeader call between them:
\* two transport calls carrying different headers, the first one cancelled,
\* the token of the second still live.
C20_Witness ==
    /\ axiosCalls = 2 /\ Len(streams) = 1 /\ Len(subs) = 2
    /\ subs[1].sent.headers # subs[2].sent.headers
    /\ subs[1].token = "cancelled" /\ subs[2].token = "live"

====
